---- MODULE Spec2Model ----
(***************************************************************************)
(* A model of the d2-stampede entity table, serializer graph and field     *)
(* model assignment.                                                       *)
(*                                                                         *)
(* Strings that the code slices, compares or parses (property names,       *)
(* var_names) are sequences of one-character strings; offsets are the      *)
(* code's 0-based byte offsets.  Results are records: Ok(v), Err(e), and   *)
(* Panic for an abort (unreachable!(), a slice or index out of range, an   *)
(* unwrap of None).                                                        *)
(***************************************************************************)
EXTENDS Integers, Sequences, FiniteSets, TLC

VARIABLES
    entities_vec,   \* Entities.entities_vec: the occupied slots, index -> Entity
    last_header,    \* the entity header processed last: command, index, event
    created,        \* history: index -> (serial, class) of the Create not yet deleted
    root,           \* the Serializer the calls are made on
    fp_cache,       \* Serializer.fp_cache of root: name -> FieldPath
    entity,         \* the Entity the property calls are made on
    call,           \* the call made last: its name and argument
    result,         \* what the call made last returned
    fields,         \* schema load: the fields loaded so far
    cur             \* schema load: the field in progress and its stage

vars == <<entities_vec, last_header, created, root, fp_cache, entity, call,
          result, fields, cur>>

tableVars == <<entities_vec, last_header, created>>
serVars == <<root, fp_cache, entity, call, result>>
schemaVars == <<fields, cur>>

----------------------------------------------------------------------------
(* Results and options *)

None == [kind |-> "none"]
Some(v) == [kind |-> "some", v |-> v]
Ok(v) == [kind |-> "Ok", v |-> v]
Err(e) == [kind |-> "Err", e |-> e]
Panic(why) == [kind |-> "Panic", why |-> why]

----------------------------------------------------------------------------
(* u32 / usize arithmetic *)

RECURSIVE Pow2(_)
Pow2(n) == IF n = 0 THEN 1 ELSE 2 * Pow2(n - 1)

RECURSIVE BitAnd(_, _)
BitAnd(a, b) ==
    IF a = 0 \/ b = 0 THEN 0
    ELSE (a % 2) * (b % 2) + 2 * BitAnd(a \div 2, b \div 2)

RECURSIVE BitOr(_, _)
BitOr(a, b) ==
    IF a = 0 THEN b
    ELSE IF b = 0 THEN a
    ELSE (IF a % 2 = 1 \/ b % 2 = 1 THEN 1 ELSE 0) + 2 * BitOr(a \div 2, b \div 2)

\* x << n on a u32: the bits shifted past bit 31 are dropped, which is
\* (x * 2^n) % 2^32, computed here without an intermediate above 2^32
Shl32(x, n) == (x % Pow2(32 - n)) * Pow2(n)

----------------------------------------------------------------------------
(* FieldPath: seven u8 slots and the cursor `last` *)

PathSlots == 7

FieldPath_new == [path |-> [i \in 0 .. PathSlots - 1 |-> 0], last |-> 0]

\* the indices a path uses: path[0 ..= last], as a sequence
Used(fp) == [k \in 1 .. fp.last + 1 |-> fp.path[k - 1]]

\* the FieldPath whose used indices are the sequence p
PathOf(p) ==
    [path |-> [i \in 0 .. PathSlots - 1 |-> IF i < Len(p) THEN p[i + 1] ELSE 0],
     last |-> Len(p) - 1]

----------------------------------------------------------------------------
(* FieldState: a vector of optional children, each a value or a FieldState *)

NoChild == [kind |-> "none"]
Val(v) == [kind |-> "value", v |-> v]
St(s) == [kind |-> "state", state |-> s]

RECURSIVE get_value_at(_, _, _)
get_value_at(state, fp, d) ==
    LET idx == fp.path[d]
    IN  IF idx >= Len(state) THEN None
        ELSE LET x == state[idx + 1]
             IN  IF d = fp.last
                 THEN IF x.kind = "value" THEN Some(x.v) ELSE None
                 ELSE IF x.kind = "state" THEN get_value_at(x.state, fp, d + 1)
                 ELSE None

get_value(state, fp) == get_value_at(state, fp, 0)

RECURSIVE set_value_at(_, _, _, _)
set_value_at(state, fp, d, v) ==
    LET idx == fp.path[d]
        grown == [k \in 1 .. (IF idx + 1 > Len(state) THEN idx + 1 ELSE Len(state)) |->
                     IF k <= Len(state) THEN state[k] ELSE NoChild]
        old == grown[idx + 1]
    IN  IF d = fp.last
        THEN [grown EXCEPT ![idx + 1] = Val(v)]
        ELSE [grown EXCEPT ![idx + 1] =
                 St(set_value_at(IF old.kind = "state" THEN old.state ELSE <<>>,
                                 fp, d + 1, v))]

set_value(state, fp, v) == set_value_at(state, fp, 0, v)

----------------------------------------------------------------------------
(* Entity *)

Entity_new(index, serial, class, state) ==
    [index |-> index, serial |-> serial, class |-> class, state |-> state]

index(e) == e.index

serial(e) == e.serial

handle_shift13(e) == BitOr(Shl32(e.serial, 13), e.index)

\* self.serial << 14 | self.index, on u32
handle(e) == BitOr(Shl32(e.serial, 14), e.index)

----------------------------------------------------------------------------
(* Entities: entities_vec holds the Some slots of the vector of NumSlots   *)
(* options; a slot below NumSlots that is not in its domain is None.       *)

NumSlots == 8192

HandleMask == 16383

Entities_default == <<>>

Occupied(vec) == DOMAIN vec

\* entities_vec.get(index).and_then(|x| x.as_ref())
vec_get(vec, idx) ==
    IF idx < NumSlots /\ idx \in DOMAIN vec THEN Some(vec[idx]) ELSE None

get_by_index_wrapping(vec, idx) ==
    LET x == vec_get(vec, idx % NumSlots)
    IN  IF x.kind = "some" THEN Ok(x.v) ELSE Err(<<"IndexNotFound", idx>>)

get_by_index(vec, idx) ==
    LET x == vec_get(vec, idx)
    IN  IF x.kind = "some" THEN Ok(x.v) ELSE Err(<<"IndexNotFound", idx>>)

get_by_handle(vec, h) ==
    LET r == get_by_index(vec, BitAnd(h, HandleMask))
    IN  IF r.kind = "Ok" THEN r ELSE Err(<<"HandleNotFound", h>>)

----------------------------------------------------------------------------
(* EntityEvents *)

from_cmd_swapped(cmd) ==
    CASE cmd = 0 -> "Updated"
      [] cmd = 2 -> "Deleted"
      [] cmd = 3 -> "Created"
      [] OTHER -> "unreachable"

from_cmd(cmd) ==
    CASE cmd = 0 -> "Updated"
      [] cmd = 2 -> "Created"
      [] cmd = 3 -> "Deleted"
      [] OTHER -> "unreachable"

----------------------------------------------------------------------------
(* Field and FieldModels *)

\* a var_name or a property name: its characters
Str1(a) == <<a>>
Str2(a, b) == <<a, b>>

\* enum Decoders: a decoder by its kind
Decoders(kind) == [kind |-> kind]

FieldModels == {"Simple", "FixedArray", "FixedTable", "VariableArray", "VariableTable"}

\* FieldType { base_name, generic, array_size }; array_size 0 is "not set"
Type(base, generic, size) == [base_name |-> base, generic |-> generic, array_size |-> size]

\* Decoders::from_field(field, generic)
from_field(f, generic) ==
    [kind |-> "from_field", var_name |-> f.var_name, var_type |-> f.var_type,
     generic |-> generic]

\* Field::new: the names of the flattened-serializer field, nothing resolved
Field_new(desc) ==
    [var_name |-> desc.var_name,
     var_type |-> desc.var_type,
     serializer_name |-> desc.serializer_name,
     field_type |-> None,
     serializer |-> None,
     model |-> "Simple",
     decoder |-> Decoders("Default"),
     base_decoder |-> Decoders("Default"),
     child_decoder |-> Decoders("Default")]

\* set_model without the check of the vector's element type
set_model_unchecked(f, model) ==
    LET m == [f EXCEPT !.model = model]
    IN  CASE model = "FixedArray" -> Ok([m EXCEPT !.decoder = from_field(m, FALSE)])
          [] model = "FixedTable" -> Ok([m EXCEPT !.base_decoder = Decoders("Boolean")])
          [] model = "VariableArray" ->
                 Ok([m EXCEPT !.base_decoder = Decoders("Unsigned"),
                              !.child_decoder = from_field(m, TRUE)])
          [] model = "VariableTable" -> Ok([m EXCEPT !.base_decoder = Decoders("Unsigned")])
          [] model = "Simple" -> Ok([m EXCEPT !.decoder = from_field(m, FALSE)])

\* Field::set_model
set_model(f, model) ==
    LET m == [f EXCEPT !.model = model]
    IN  CASE model = "FixedArray" -> Ok([m EXCEPT !.decoder = from_field(m, FALSE)])
          [] model = "FixedTable" -> Ok([m EXCEPT !.base_decoder = Decoders("Boolean")])
          [] model = "VariableArray" ->
                 IF m.field_type.kind = "none" THEN Panic("unwrap of field_type")
                 ELSE IF m.field_type.v.generic.kind = "none" THEN Panic("No generic")
                 ELSE Ok([m EXCEPT !.base_decoder = Decoders("Unsigned"),
                                   !.child_decoder = from_field(m, TRUE)])
          [] model = "VariableTable" -> Ok([m EXCEPT !.base_decoder = Decoders("Unsigned")])
          [] model = "Simple" -> Ok([m EXCEPT !.decoder = from_field(m, FALSE)])

----------------------------------------------------------------------------
(* Schema load: after Field::new the loader resolves the field's type and  *)
(* child serializer, picks the model and calls set_model.                  *)

VectorNames == {"CUtlVector", "CNetworkUtlVectorBase", "CUtlVectorEmbeddedNetworkVar"}

\* the loader's resolution of var_type and serializer_name
Resolve(f, desc) ==
    [f EXCEPT !.field_type = Some(desc.field_type),
              !.serializer = IF desc.serializer = 0 THEN None ELSE Some(desc.serializer)]

\* field-model assignment
ModelFor(f) ==
    LET t == f.field_type.v
        leaf == f.serializer.kind = "none"
    IN  IF t.array_size > 0 THEN (IF leaf THEN "FixedArray" ELSE "FixedTable")
        ELSE IF t.base_name \in VectorNames
             THEN (IF leaf THEN "VariableArray" ELSE "VariableTable")
        ELSE IF ~leaf THEN "FixedTable"
        ELSE "Simple"

LoadField(desc) ==
    LET f == Resolve(Field_new(desc), desc)
    IN  set_model(f, ModelFor(f))

Desc(name, var_type, field_type, ser_name, ser) ==
    [var_name |-> name, var_type |-> var_type, field_type |-> field_type,
     serializer_name |-> ser_name, serializer |-> ser]

Int32 == Type("int32", None, 0)

D_simple(name) == Desc(name, "int32", Int32, "", 0)
D_fixed_array(name) == Desc(name, "int32[2]", Type("int32", None, 2), "", 0)
D_record(name, ser) == Desc(name, "CRecord", Type("CRecord", None, 0), "CRecord", ser)
D_vector(name) == Desc(name, "CUtlVector< int32 >", Type("CUtlVector", Some(Int32), 0), "", 0)
D_table(name, ser) ==
    Desc(name, "CUtlVector< CRow >",
         Type("CUtlVector", Some(Type("CRow", None, 0)), 0), "CRow", ser)

\* the schema: serializer id -> the descriptors of its fields, in order
SerIds == 1 .. 4

SchemaDescs(id) ==
    CASE id = 1 -> << D_simple(Str1("h")),
                      D_fixed_array(Str2("f", "a")),
                      D_record(Str1("b"), 2),
                      D_vector(Str2("v", "a")),
                      D_table(Str2("v", "t"), 3) >>
      [] id = 2 -> << D_simple(Str1("x")),
                      D_table(Str2("v", "t"), 3) >>
      [] id = 3 -> << D_simple(Str1("s")),
                      D_record(Str1("b"), 4),
                      D_vector(Str2("v", "a")) >>
      [] id = 4 -> << D_simple(Str1("h")) >>

\* Serializer.fields of the serializer with this id
SerFields(id) ==
    LET ds == SchemaDescs(id)
    IN  [k \in 1 .. Len(ds) |-> LoadField(ds[k]).v]

----------------------------------------------------------------------------
(* Strings: slices, u8 parsing and {:04} formatting *)

\* &s[a..b], for 0-based byte offsets a <= b <= len
Slice(s, a, b) == SubSeq(s, a + 1, b)

Digits == <<"0", "1", "2", "3", "4", "5", "6", "7", "8", "9">>

DigitVal(c) ==
    IF \E d \in 0 .. 9 : Digits[d + 1] = c
    THEN CHOOSE d \in 0 .. 9 : Digits[d + 1] = c
    ELSE -1

U8Max == 255

RECURSIVE parse_digits(_, _, _)
parse_digits(cs, k, acc) ==
    IF k > Len(cs) THEN Ok(acc)
    ELSE LET d == DigitVal(cs[k])
         IN  IF d < 0 THEN Err(<<"ParseIntError", "InvalidDigit">>)
             ELSE IF acc * 10 + d > U8Max THEN Err(<<"ParseIntError", "PosOverflow">>)
             ELSE parse_digits(cs, k + 1, acc * 10 + d)

\* str::parse::<u8>: decimal digits after an optional '+', at most 255
parse_u8(cs) ==
    IF cs = <<>> THEN Err(<<"ParseIntError", "Empty">>)
    ELSE LET body == IF cs[1] = "+" THEN Tail(cs) ELSE cs
         IN  IF body = <<>> THEN Err(<<"ParseIntError", "InvalidDigit">>)
             ELSE parse_digits(body, 1, 0)

\* format!("{:04}", v) for a u8
fmt04(v) ==
    << Digits[((v \div 1000) % 10) + 1], Digits[((v \div 100) % 10) + 1],
       Digits[((v \div 10) % 10) + 1], Digits[(v % 10) + 1] >>

Dot == <<".">>

----------------------------------------------------------------------------
(* Serializer *)

RECURSIVE name_loop(_, _, _, _)
RECURSIVE name_descend(_, _, _, _)

\* one turn of the loop of get_name_for_field_path, current_field at depth i
name_loop(fp, current_field, i, name) ==
    LET name1 == name \o current_field.var_name
    IN  CASE current_field.model \in {"FixedArray", "VariableArray"} ->
                 IF i + 1 >= PathSlots THEN Panic("path index out of range")
                 ELSE Ok(name1 \o Dot \o fmt04(fp.path[i + 1]))
          [] current_field.model = "VariableTable" ->
                 IF i + 1 >= PathSlots THEN Panic("path index out of range")
                 ELSE name_descend(fp, current_field, i + 2,
                                   name1 \o Dot \o fmt04(fp.path[i + 1]) \o Dot)
          [] current_field.model \in {"FixedTable", "Simple"} -> Ok(name1)

\* current_serializer = current_field.serializer.unwrap();
\* current_field = &current_serializer.fields[fp.path[i]]
name_descend(fp, current_field, i, name) ==
    IF current_field.serializer.kind = "none" THEN Panic("unwrap of serializer")
    ELSE IF i >= PathSlots THEN Panic("path index out of range")
    ELSE LET flds == SerFields(current_field.serializer.v)
         IN  IF fp.path[i] >= Len(flds) THEN Panic("field index out of range")
             ELSE name_loop(fp, flds[fp.path[i] + 1], i, name)

get_name_for_field_path(ser, fp) ==
    LET flds == SerFields(ser)
    IN  IF fp.path[0] >= Len(flds) THEN Panic("field index out of range")
        ELSE name_loop(fp, flds[fp.path[0] + 1], 0, <<>>)

RECURSIVE decoder_loop(_, _, _)
RECURSIVE decoder_descend(_, _, _)

decoder_loop_last_eq_i(fp, current_field, i0) ==
    LET i == i0 + 1
    IN  CASE current_field.model \in {"Simple", "FixedArray"} -> Ok(current_field.decoder)
          [] current_field.model = "FixedTable" ->
                 IF fp.last = i THEN Ok(current_field.base_decoder)
                 ELSE decoder_descend(fp, current_field, i)
          [] current_field.model = "VariableArray" ->
                 IF fp.last = i THEN Ok(current_field.child_decoder)
                 ELSE Ok(current_field.base_decoder)
          [] current_field.model = "VariableTable" ->
                 IF i >= fp.last THEN Ok(current_field.base_decoder)
                 ELSE decoder_descend(fp, current_field, i + 1)

\* one turn of the loop of get_decoder_for_field_path, entered with i = i0
decoder_loop(fp, current_field, i0) ==
    LET i == i0 + 1
    IN  CASE current_field.model \in {"Simple", "FixedArray"} -> Ok(current_field.decoder)
          [] current_field.model = "FixedTable" ->
                 IF fp.last + 1 = i THEN Ok(current_field.base_decoder)
                 ELSE decoder_descend(fp, current_field, i)
          [] current_field.model = "VariableArray" ->
                 IF fp.last = i THEN Ok(current_field.child_decoder)
                 ELSE Ok(current_field.base_decoder)
          [] current_field.model = "VariableTable" ->
                 IF i >= fp.last THEN Ok(current_field.base_decoder)
                 ELSE decoder_descend(fp, current_field, i + 1)

decoder_descend(fp, current_field, i) ==
    IF current_field.serializer.kind = "none" THEN Panic("unwrap of serializer")
    ELSE IF i >= PathSlots THEN Panic("path index out of range")
    ELSE LET flds == SerFields(current_field.serializer.v)
         IN  IF fp.path[i] >= Len(flds) THEN Panic("field index out of range")
             ELSE decoder_loop(fp, flds[fp.path[i] + 1], i)

get_decoder_for_field_path(ser, fp) ==
    LET flds == SerFields(ser)
    IN  IF fp.path[0] >= Len(flds) THEN Panic("field index out of range")
        ELSE decoder_loop(fp, flds[fp.path[0] + 1], 0)

RECURSIVE resolve_fields(_, _, _, _, _)

\* after `f` matched up to a '.': fp1 and offset1 are fp and offset past it
resolve_below(name, f, fp1, offset1) ==
    CASE f.model \in {"FixedArray", "VariableArray"} ->
             LET r == parse_u8(Slice(name, 0, offset1))
             IN  IF r.kind = "Err" THEN r
                 ELSE IF fp1.last >= PathSlots THEN Panic("path index out of range")
                 ELSE Ok([fp1 EXCEPT !.path[fp1.last] = r.v])
      [] f.model = "FixedTable" ->
             IF f.serializer.kind = "none" THEN Panic("unwrap of serializer")
             ELSE resolve_fields(name, f.serializer.v, fp1, offset1, 0)
      [] f.model = "VariableTable" ->
             IF offset1 + 4 > Len(name) THEN Panic("slice end out of range")
             ELSE LET r == parse_u8(Slice(name, offset1, offset1 + 4))
                  IN  IF r.kind = "Err" THEN r
                      ELSE IF fp1.last >= PathSlots THEN Panic("path index out of range")
                      ELSE IF f.serializer.kind = "none"
                      THEN Panic("unwrap of serializer")
                      ELSE resolve_fields(
                               name, f.serializer.v,
                               [fp1 EXCEPT !.path[fp1.last] = r.v, !.last = fp1.last + 1],
                               offset1 + 5, 0)
      [] f.model = "Simple" -> Panic("unreachable!()")

\* the body of the for loop for field f at position i
resolve_field(name, current_serializer, fp, offset, i, f) ==
    IF Slice(name, offset, Len(name)) = f.var_name
    THEN IF fp.last >= PathSlots THEN Panic("path index out of range")
         ELSE Ok([fp EXCEPT !.path[fp.last] = i])
    ELSE IF /\ Len(name) - offset > Len(f.var_name)
            /\ name[offset + Len(f.var_name) + 1] = "."
            /\ Slice(name, offset, offset + Len(f.var_name)) = f.var_name
    THEN IF fp.last >= PathSlots THEN Panic("path index out of range")
         ELSE resolve_below(name, f,
                            [fp EXCEPT !.path[fp.last] = i, !.last = fp.last + 1],
                            offset + Len(f.var_name) + 1)
    ELSE resolve_fields(name, current_serializer, fp, offset, i + 1)

\* the for loop of get_field_path_for_name from field i of
\* current_serializer on, with `offset` into the name; running off the end
\* of the fields is the bail!
resolve_fields(name, current_serializer, fp, offset, i) ==
    IF i >= Len(SerFields(current_serializer))
    THEN Err(<<"No field path for given name">>)
    ELSE IF offset > Len(name) THEN Panic("slice start out of range")
    ELSE resolve_field(name, current_serializer, fp, offset, i,
                       SerFields(current_serializer)[i + 1])

\* the lookup without the insert into fp_cache
after_resolve_no_insert(cache, name, r) == [ret |-> r, cache |-> cache]

\* self.fp_cache.borrow_mut().insert(name.into(), fp) after the loop ended
\* with r: only a path found is inserted
after_resolve(cache, name, r) ==
    IF r.kind = "Ok"
    THEN [ret |-> r, cache |-> (name :> r.v) @@ cache]
    ELSE [ret |-> r, cache |-> cache]

\* Serializer::get_field_path_for_name on serializer ser with fp_cache
\* `cache`: what it returns and the cache it leaves
get_field_path_for_name(ser, cache, name) ==
    IF name \in DOMAIN cache THEN [ret |-> Ok(cache[name]), cache |-> cache]
    ELSE after_resolve(cache, name, resolve_fields(name, ser, FieldPath_new, 0, 0))

----------------------------------------------------------------------------
(* Classes and their baselines *)

ClassIds == {1, 2}

\* Class { id, name, serializer }
Class(id) ==
    IF id = 1 THEN [id |-> 1, name |-> "C_Hero", serializer |-> 1]
    ELSE [id |-> id, name |-> "C_Row", serializer |-> 3]

\* the class baseline: the instancebaseline row of the class, decoded
Baseline(id) == IF id = 1 THEN <<Val(600)>> ELSE <<Val(7)>>

----------------------------------------------------------------------------
(* The packet decoder's entity headers: two command bits, an index, and    *)
(* for a Create a class id and a serial of SerialBits bits.                *)

SerialBits == 17

Commands == 0 .. 3

IndexInputs == {5, NumSlots - 1, NumSlots}

SerialInputs == {1, 2, Pow2(SerialBits) - 1}

UpdateValues == {450, 451}

Dispatch(cmd) ==
    CASE cmd = 0 -> "Update"
      [] cmd = 1 -> "Leave"
      [] cmd = 2 -> "Create"
      [] cmd = 3 -> "Delete"

NoHeader == [cmd |-> -1, index |-> -1, event |-> "none"]

Header(cmd, i) == [cmd |-> cmd, index |-> i, event |-> from_cmd(cmd)]

Without(f, i) == [j \in (DOMAIN f) \ {i} |-> f[j]]

Idle ==
    /\ root = 0
    /\ fp_cache = <<>>
    /\ entity = None
    /\ call = None
    /\ result = None
    /\ fields = <<>>
    /\ cur = None

Init ==
    /\ entities_vec = Entities_default
    /\ last_header = NoHeader
    /\ created = <<>>
    /\ Idle

\* create(index, serial, class_id): the baseline state, stored in slot index
Create ==
    \E cmd \in Commands, i \in IndexInputs, s \in SerialInputs, c \in ClassIds :
        /\ Dispatch(cmd) = "Create"
        /\ i < NumSlots
        /\ entities_vec' = (i :> Entity_new(i, s, c, Baseline(c))) @@ entities_vec
        /\ created' = (i :> [serial |-> s, class |-> c]) @@ created
        /\ last_header' = Header(cmd, i)
        /\ UNCHANGED <<serVars, schemaVars>>

\* update(index, path -> value): the slot must be occupied
Update ==
    \E cmd \in Commands, i \in IndexInputs, v \in UpdateValues :
        /\ Dispatch(cmd) = "Update"
        /\ i \in Occupied(entities_vec)
        /\ entities_vec' =
               [entities_vec EXCEPT ![i].state = set_value(@, PathOf(<<0>>), v)]
        /\ last_header' = Header(cmd, i)
        /\ UNCHANGED <<created, serVars, schemaVars>>

\* delete(index): the slot is cleared
Delete ==
    \E cmd \in Commands, i \in IndexInputs :
        /\ Dispatch(cmd) = "Delete"
        /\ i \in Occupied(entities_vec)
        /\ entities_vec' = Without(entities_vec, i)
        /\ created' = Without(created, i)
        /\ last_header' = Header(cmd, i)
        /\ UNCHANGED <<serVars, schemaVars>>

\* leave(index): no state change, no event
Leave ==
    \E cmd \in Commands, i \in IndexInputs :
        /\ Dispatch(cmd) = "Leave"
        /\ i < NumSlots
        /\ last_header' = [cmd |-> cmd, index |-> i, event |-> "none"]
        /\ UNCHANGED <<entities_vec, created, serVars, schemaVars>>

Next == Create \/ Update \/ Delete \/ Leave

Spec == Init /\ [][Next]_vars

----------------------------------------------------------------------------
(* Properties of the entity table *)

Shr(x, n) == x \div Pow2(n)

HandleOf(s, i) == s * Pow2(14) + i

HandleInputs == {HandleOf(s, i) : s \in SerialInputs, i \in {5, NumSlots - 1, NumSlots + 5}}

LookupIndexes == IndexInputs \cup {NumSlots + 5, HandleMask}

\* C1: get_by_handle(h) returns an entity only if slot h & 0x3FFF is occupied
\* and the serial of the entity in it is h >> 14; a handle whose serial is not
\* that of the slot's entity gets HandleNotFound.
C1_HandleSerialChecked ==
    \A h \in HandleInputs :
        LET r == get_by_handle(entities_vec, h)
            i == BitAnd(h, HandleMask)
        IN  IF i \in Occupied(entities_vec) /\ serial(entities_vec[i]) = Shr(h, 14)
            THEN r = Ok(entities_vec[i])
            ELSE r = Err(<<"HandleNotFound", h>>)

\* C2: get_by_index(i) returns the entity created last at slot i when no
\* Delete at i followed that Create, and IndexNotFound(i) otherwise (never
\* created, deleted since, or i >= 8192); Update and Leave leave the set of
\* occupied slots as the Creates and Deletes made it.
C2_IndexLookup ==
    /\ Occupied(entities_vec) = DOMAIN created
    /\ \A i \in LookupIndexes :
           LET r == get_by_index(entities_vec, i)
           IN  IF i \in DOMAIN created
               THEN /\ r.kind = "Ok"
                    /\ index(r.v) = i
                    /\ serial(r.v) = created[i].serial
                    /\ r.v.class = created[i].class
               ELSE r = Err(<<"IndexNotFound", i>>)

\* Slot 5 holds an entity created and since updated, the last slot is
\* occupied too, and a lookup beyond the table finds nothing.
C2_Witness ==
    /\ 5 \in Occupied(entities_vec)
    /\ NumSlots - 1 \in Occupied(entities_vec)
    /\ entities_vec[5].state # Baseline(entities_vec[5].class)
    /\ last_header.cmd = 1
    /\ get_by_index(entities_vec, NumSlots + 5).kind = "Err"

\* C3: for every entity in the table, handle() is (serial << 14) | index
\* with no bit lost in 32 bits, index() < 8192, the low 14 bits of the handle
\* are the index and the bits above them the serial, which fits in 18 bits.
C3_HandleLayout ==
    \A i \in Occupied(entities_vec) :
        LET e == entities_vec[i]
        IN  /\ handle(e) = serial(e) * Pow2(14) + index(e)
            /\ index(e) = i
            /\ index(e) < NumSlots
            /\ BitAnd(handle(e), HandleMask) = index(e)
            /\ Shr(handle(e), 14) = serial(e)
            /\ serial(e) < Pow2(18)

\* The last slot holds an entity with the largest serial, and slot 5 the
\* entity of scenario S1, whose handle is 16389.
C3_Witness ==
    /\ NumSlots - 1 \in Occupied(entities_vec)
    /\ serial(entities_vec[NumSlots - 1]) = Pow2(SerialBits) - 1
    /\ 5 \in Occupied(entities_vec)
    /\ serial(entities_vec[5]) = 1
    /\ handle(entities_vec[5]) = 16389

C8_HeaderInv ==
    /\ last_header.event # "unreachable"
    /\ last_header.cmd = 0 =>
           last_header.event = "Updated" /\ last_header.index \in Occupied(entities_vec)
    /\ last_header.cmd = 2 =>
           last_header.event = "Created" /\ last_header.index \in Occupied(entities_vec)
    /\ last_header.cmd = 3 =>
           last_header.event = "Deleted" /\ last_header.index \notin Occupied(entities_vec)
    /\ last_header.cmd = 1 => last_header.event = "none"

\* C8: command 0b00 is an Update, 0b10 a Create, 0b11 a Delete and 0b01 a
\* Leave; from_cmd is applied to the first three only and gives Updated,
\* Created, Deleted, never the unreachable!() arm; a Leave changes no state
\* and produces no event.
C8_CommandMapping ==
    /\ []C8_HeaderInv
    /\ [][last_header'.cmd = 1 => entities_vec' = entities_vec]_vars

\* A Leave header was processed at an occupied slot.
C8_Witness ==
    /\ last_header.cmd = 1
    /\ last_header.index \in Occupied(entities_vec)

----------------------------------------------------------------------------
(* Field paths of the schema: a path names a field, an array element, a    *)
(* table row or a field below a record or row.                             *)

MaxElem == 1

ElemIndexes == 0 .. MaxElem

RECURSIVE ValidPaths(_)
ValidPaths(ser) ==
    LET flds == SerFields(ser)
        Below(k) ==
            LET f == flds[k + 1]
            IN  CASE f.model = "Simple" -> {}
                  [] f.model = "FixedArray" ->
                         {<<k, e>> : e \in 0 .. f.field_type.v.array_size - 1}
                  [] f.model = "FixedTable" ->
                         {<<k>> \o p : p \in ValidPaths(f.serializer.v)}
                  [] f.model = "VariableArray" -> {<<k, e>> : e \in ElemIndexes}
                  [] f.model = "VariableTable" ->
                         {<<k, e>> : e \in ElemIndexes}
                         \cup {<<k, e>> \o p : e \in ElemIndexes,
                                               p \in ValidPaths(f.serializer.v)}
    IN  UNION {{<<k>>} \cup Below(k) : k \in 0 .. Len(flds) - 1}

----------------------------------------------------------------------------
(* Calls on a serializer with a field path *)

Call(name, arg) == [name |-> name, arg |-> arg, cache |-> fp_cache]

InitPaths ==
    /\ root \in SerIds
    /\ \E p \in ValidPaths(root) : call = [name |-> "input", arg |-> PathOf(p), cache |-> <<>>]
    /\ result = None
    /\ fp_cache = <<>>
    /\ entity = None
    /\ entities_vec = Entities_default
    /\ last_header = NoHeader
    /\ created = <<>>
    /\ fields = <<>>
    /\ cur = None

GetDecoderForFieldPath ==
    /\ call' = Call("get_decoder_for_field_path", call.arg)
    /\ result' = get_decoder_for_field_path(root, call.arg)
    /\ UNCHANGED <<root, fp_cache, entity, tableVars, schemaVars>>

GetNameForFieldPath ==
    /\ call' = Call("get_name_for_field_path", call.arg)
    /\ result' = get_name_for_field_path(root, call.arg)
    /\ UNCHANGED <<root, fp_cache, entity, tableVars, schemaVars>>

NextPaths == GetDecoderForFieldPath \/ GetNameForFieldPath

SpecPaths == InitPaths /\ [][NextPaths]_vars

\* the decoder the field model prescribes for path fp, whose index at depth
\* d selects a field of serializer ser
RECURSIVE DecoderByModel(_, _, _)
DecoderByModel(ser, fp, d) ==
    LET f == SerFields(ser)[fp.path[d] + 1]
    IN  CASE f.model \in {"Simple", "FixedArray"} ->
                 [which |-> "decoder", value |-> f.decoder]
          [] f.model = "FixedTable" ->
                 IF fp.last = d THEN [which |-> "base_decoder.Boolean", value |-> Decoders("Boolean")]
                 ELSE DecoderByModel(f.serializer.v, fp, d + 1)
          [] f.model = "VariableArray" ->
                 IF fp.last = d THEN [which |-> "base_decoder.Unsigned", value |-> Decoders("Unsigned")]
                 ELSE [which |-> "child_decoder", value |-> from_field(f, TRUE)]
          [] f.model = "VariableTable" ->
                 IF fp.last <= d + 1
                 THEN [which |-> "base_decoder.Unsigned", value |-> Decoders("Unsigned")]
                 ELSE DecoderByModel(f.serializer.v, fp, d + 2)

\* C9: for every valid field path, get_decoder_for_field_path returns the
\* field's decoder at a Simple or FixedArray field or element, the Boolean
\* base_decoder at a FixedTable field itself, the unsigned-varint
\* base_decoder at a VariableArray or VariableTable field itself or a
\* VariableTable row, the child_decoder at a VariableArray element, and
\* otherwise the decoder found below the table's child serializer.
C9_DecoderSelection ==
    call.name = "get_decoder_for_field_path" =>
        result = Ok(DecoderByModel(root, call.arg, 0).value)

\* The decoder was looked up for a field below a row of a VariableTable
\* inside a FixedTable, and it is the child_decoder of a VariableArray.
C9_Witness ==
    /\ call.name = "get_decoder_for_field_path"
    /\ root = 1
    /\ Used(call.arg) = <<2, 1, 1, 2, 0>>
    /\ result.kind = "Ok"
    /\ DecoderByModel(root, call.arg, 0).which = "child_decoder"

----------------------------------------------------------------------------
(* Calls on a serializer with a property name *)

MaxSegs == 3

\* segments of the names tried: the var_names of the schema, element
\* indices (in range, above u8, too short), an unknown name, nothing
Segs ==
    { Str1("h"), Str2("f", "a"), Str1("b"), Str2("v", "a"), Str2("v", "t"),
      Str1("x"), Str1("s"), Str1("q"),
      fmt04(1), <<"0", "3", "0", "0">>, Str1("1"), <<>> }

RECURSIVE NamesOf(_)
NamesOf(k) ==
    IF k = 1 THEN Segs
    ELSE {n \o Dot \o sg : n \in NamesOf(k - 1), sg \in Segs}

Names(max) == UNION {NamesOf(k) : k \in 1 .. max}

InitNames ==
    /\ root \in SerIds
    /\ \E n \in Names(MaxSegs) : call = [name |-> "input", arg |-> n, cache |-> <<>>]
    /\ result = None
    /\ fp_cache = <<>>
    /\ entity = None
    /\ entities_vec = Entities_default
    /\ last_header = NoHeader
    /\ created = <<>>
    /\ fields = <<>>
    /\ cur = None

GetFieldPathForName ==
    /\ call.name = "input"
    /\ \E r \in {get_field_path_for_name(root, fp_cache, call.arg)} :
           /\ result' = r.ret
           /\ fp_cache' = r.cache
    /\ call' = Call("get_field_path_for_name", call.arg)
    /\ UNCHANGED <<root, entity, tableVars, schemaVars>>

\* the name of the path a name resolved to
NameOfResolvedPath ==
    /\ call.name = "get_field_path_for_name"
    /\ result.kind = "Ok"
    /\ call' = [name |-> "get_name_for_field_path", arg |-> result.v,
                cache |-> fp_cache, resolved |-> call.arg]
    /\ result' = get_name_for_field_path(root, result.v)
    /\ UNCHANGED <<root, fp_cache, entity, tableVars, schemaVars>>

NextNames == GetFieldPathForName \/ NameOfResolvedPath

SpecNames == InitNames /\ [][NextNames]_vars

----------------------------------------------------------------------------
(* The naming convention of property names: var_names joined by '.',       *)
(* element and row indices as four zero-padded digits.                     *)

RECURSIVE SplitFrom(_, _, _)
SplitFrom(name, k, seg) ==
    IF k > Len(name) THEN <<seg>>
    ELSE IF name[k] = "." THEN <<seg>> \o SplitFrom(name, k + 1, <<>>)
    ELSE SplitFrom(name, k + 1, Append(seg, name[k]))

Split(name) == SplitFrom(name, 1, <<>>)

IsIndexSeg(seg) ==
    /\ Len(seg) = 4
    /\ \A k \in 1 .. 4 : DigitVal(seg[k]) >= 0

IndexOfSeg(seg) ==
    1000 * DigitVal(seg[1]) + 100 * DigitVal(seg[2]) + 10 * DigitVal(seg[3])
    + DigitVal(seg[4])

NoPath == [ok |-> FALSE]

Prefixed(p, r) == IF r.ok THEN [ok |-> TRUE, p |-> p \o r.p] ELSE NoPath

\* the path the segments name on serializer ser, if any
RECURSIVE PathNamedBy(_, _)
PathNamedBy(ser, segs) ==
    LET flds == SerFields(ser)
        hits == {k \in 0 .. Len(flds) - 1 : flds[k + 1].var_name = segs[1]}
    IN  IF hits = {} THEN NoPath
        ELSE
        LET k == CHOOSE k \in hits : \A j \in hits : k <= j
            f == flds[k + 1]
            rest == Tail(segs)
            indexed == /\ rest # <<>>
                       /\ IsIndexSeg(rest[1])
                       /\ IndexOfSeg(rest[1]) <= U8Max
        IN  IF rest = <<>> THEN [ok |-> TRUE, p |-> <<k>>]
            ELSE CASE f.model = "Simple" -> NoPath
                   [] f.model = "FixedArray" ->
                          IF /\ indexed
                             /\ Len(rest) = 1
                             /\ IndexOfSeg(rest[1]) < f.field_type.v.array_size
                          THEN [ok |-> TRUE, p |-> <<k, IndexOfSeg(rest[1])>>]
                          ELSE NoPath
                   [] f.model = "VariableArray" ->
                          IF indexed /\ Len(rest) = 1
                          THEN [ok |-> TRUE, p |-> <<k, IndexOfSeg(rest[1])>>]
                          ELSE NoPath
                   [] f.model = "FixedTable" ->
                          Prefixed(<<k>>, PathNamedBy(f.serializer.v, rest))
                   [] f.model = "VariableTable" ->
                          IF ~indexed THEN NoPath
                          ELSE IF Len(rest) = 1
                          THEN [ok |-> TRUE, p |-> <<k, IndexOfSeg(rest[1])>>]
                          ELSE Prefixed(<<k, IndexOfSeg(rest[1])>>,
                                        PathNamedBy(f.serializer.v, Tail(rest)))

Resolvable(ser, name) ==
    LET r == PathNamedBy(ser, Split(name))
    IN  r.ok /\ Len(r.p) <= PathSlots

\* what the path p (a sequence of indices) ends at, from depth d of ser:
\* the model of a field, an array "element" or a table "row"
RECURSIVE EndOf(_, _, _)
EndOf(ser, p, d) ==
    LET f == SerFields(ser)[p[d + 1] + 1]
    IN  IF Len(p) = d + 1 THEN f.model
        ELSE CASE f.model \in {"FixedArray", "VariableArray"} -> "element"
               [] f.model = "FixedTable" -> EndOf(f.serializer.v, p, d + 1)
               [] f.model = "VariableTable" ->
                      IF Len(p) = d + 2 THEN "row"
                      ELSE EndOf(f.serializer.v, p, d + 2)
               [] f.model = "Simple" -> "Simple"

\* C4: when get_field_path_for_name(n) succeeds with path p,
\* get_name_for_field_path(p) is n again, for the names of Simple fields,
\* at the top or below nested records and table rows, and of array elements.
C4_RoundTrip ==
    /\ call.name = "get_name_for_field_path"
    /\ EndOf(root, Used(call.arg), 0) \in {"Simple", "element"}
    => result = Ok(call.resolved)

\* C5: "<field>.NNNN" on a FixedArray or VariableArray field at position k
\* resolves to the path [k, NNNN] with last = 1, and "<field>.NNNN.<c>" on a
\* VariableTable field at position k whose child has field c at position j
\* resolves to [k, NNNN, j] with last = 2.
C5_NumericSegments ==
    call.name = "get_field_path_for_name" =>
        LET r == PathNamedBy(root, Split(call.arg))
            f == SerFields(root)[r.p[1] + 1]
        IN  /\ r.ok
            /\ \/ Len(r.p) = 2 /\ f.model \in {"FixedArray", "VariableArray"}
               \/ Len(r.p) = 3 /\ f.model = "VariableTable"
            => /\ result.kind = "Ok"
               /\ Used(result.v) = r.p
               /\ result.v.last = Len(r.p) - 1

----------------------------------------------------------------------------
(* Entity properties *)

\* the PropertyNameNotFound error, with the path's name n
not_found(e, fp, n) ==
    IF n.kind = "Panic" THEN n
    ELSE Err(<<"PropertyNameNotFound", n.v, Class(e.class).name, Used(fp)>>)

\* self.state.get_value(fp).ok_or_else(...) with v the value found
value_or_not_found(e, fp, v) ==
    IF v.kind = "some" THEN Ok(v.v)
    ELSE not_found(e, fp, get_name_for_field_path(Class(e.class).serializer, fp))

\* Entity::get_property_by_field_path
get_property_by_field_path(e, fp) == value_or_not_found(e, fp, get_value(e.state, fp))

\* get_property_by_field_path(&...get_field_path_for_name(name)?) once the
\* name lookup returned r
property_of(e, r) ==
    [ret |-> CASE r.ret.kind = "Ok" -> get_property_by_field_path(e, r.ret.v)
               [] r.ret.kind = "Err" -> Err(<<"FieldPathNotFound", r.ret.e>>)
               [] r.ret.kind = "Panic" -> r.ret,
     cache |-> r.cache]

\* Entity::get_property_by_name with the fp_cache of the class serializer:
\* what it returns and the cache it leaves
get_property_by_name(e, cache, name) ==
    property_of(e, get_field_path_for_name(Class(e.class).serializer, cache, name))

N2(a, b) == a \o Dot \o b

N3(a, b, c) == a \o Dot \o b \o Dot \o c

\* the names asked of the entity
PropNames ==
    { Str1("h"), N2(Str1("h"), Str1("x")), Str1("q"),
      Str2("v", "a"), N2(Str2("v", "a"), fmt04(0)), N2(Str2("v", "a"), fmt04(2)),
      N2(Str2("v", "a"), fmt04(3)), N2(Str2("v", "a"), Str1("1")),
      N2(Str2("f", "a"), fmt04(1)),
      N2(Str1("b"), Str1("x")), N2(Str1("b"), Str1("q")),
      N3(Str2("v", "t"), fmt04(0), Str1("s")), N3(Str2("v", "t"), fmt04(1), Str1("s")),
      N2(Str2("v", "t"), fmt04(0)), N2(Str2("v", "t"), Str1("1")) }

\* the state after the writes <<path, value>>, from the k-th on
RECURSIVE WithValuesFrom(_, _, _)
WithValuesFrom(state, writes, k) ==
    IF k > Len(writes) THEN state
    ELSE WithValuesFrom(set_value(state, PathOf(writes[k][1]), writes[k][2]),
                        writes, k + 1)

WithValues(state, writes) == WithValuesFrom(state, writes, 1)

\* the states of the entity: the baseline alone; and scenario S4's vector of
\* three elements with a record field and one table row set
PropStates ==
    { Baseline(1),
      WithValues(Baseline(1),
                 << <<(<<3, 0>>), 10>>, <<(<<3, 1>>), 20>>, <<(<<3, 2>>), 30>>,
                    <<(<<2, 0>>), 3>>, <<(<<4, 0, 0>>), 7>> >>) }

InitProps ==
    /\ root = Class(1).serializer
    /\ \E st \in PropStates : entity = Entity_new(5, 1, 1, st)
    /\ entities_vec = (5 :> entity)
    /\ created = (5 :> [serial |-> 1, class |-> 1])
    /\ last_header = Header(2, 5)
    /\ fp_cache = <<>>
    /\ call = [name |-> "input", arg |-> <<>>, cache |-> <<>>]
    /\ result = None
    /\ fields = <<>>
    /\ cur = None

\* a panic aborts the program: no call follows it
GetPropertyByName ==
    \E n \in PropNames :
        /\ result.kind # "Panic"
        /\ \E r \in {get_property_by_name(entity, fp_cache, n)} :
               /\ result' = r.ret
               /\ fp_cache' = r.cache
        /\ call' = Call("get_property_by_name", n)
        /\ UNCHANGED <<root, entity, tableVars, schemaVars>>

NextProps == GetPropertyByName

SpecProps == InitProps /\ [][NextProps]_vars

\* C6: a name that does not resolve on the entity's class gets an Err from
\* get_property_by_name, with no panic, and the entity, the entity table and
\* the name cache are as before the call.
C6_LookupFailureIsErr ==
    /\ call.name = "get_property_by_name"
    /\ ~Resolvable(root, call.arg)
    => /\ result.kind = "Err"
       /\ fp_cache = call.cache
       /\ entities_vec = (5 :> entity)

\* the number of elements the state holds for the vector at top-level field k
ElementsAt(state, k) ==
    IF k < Len(state) /\ state[k + 1].kind = "state" THEN Len(state[k + 1].state) ELSE 0

\* C7: for a variable array holding elements 0..len-1, the property
\* "<field>.NNNN" is the stored element when NNNN < len and
\* PropertyNameNotFound when NNNN >= len; and for every name that names a
\* path p, the call returns Ok(v) when the state holds v at p and
\* PropertyNameNotFound when it holds nothing there.
C7_PropertyValue ==
    call.name = "get_property_by_name" /\ Resolvable(root, call.arg) =>
        LET p == PathNamedBy(root, Split(call.arg)).p
            v == get_value(entity.state, PathOf(p))
            f == SerFields(root)[p[1] + 1]
        IN  /\ IF v.kind = "some" THEN result = Ok(v.v)
               ELSE result.kind = "Err" /\ result.e[1] = "PropertyNameNotFound"
            /\ f.model = "VariableArray" /\ Len(p) = 2 =>
                   (p[2] < ElementsAt(entity.state, p[1]) <=> result.kind = "Ok")

----------------------------------------------------------------------------
(* Schema load, field by field: Field::new, the loader's resolution of the *)
(* type and the child serializer, Field::set_model, and the decoder lookup *)
(* on the fields that were loaded.                                         *)

MaxFields == 2

\* a vector type whose type expression names no element type
D_bare_vector(name) == Desc(name, "CUtlVector", Type("CUtlVector", None, 0), "", 0)

\* a fixed array of records
D_record_array(name, ser) ==
    Desc(name, "CRecord[2]", Type("CRecord", None, 2), "CRecord", ser)

LoadInputs ==
    {D_simple(Str1("h")), D_fixed_array(Str2("f", "a")), D_record(Str1("b"), 2),
     D_record_array(Str2("b", "a"), 2), D_vector(Str2("v", "a")),
     D_table(Str2("v", "t"), 3), D_bare_vector(Str1("q"))}

\* Field::get_decoder_for_field_path of field f for a path with the given
\* `last`, at position pos: the decoder, or the descent into the child
\* serializer
Field_get_decoder_for_field_path(f, last, pos) ==
    CASE f.model = "Simple" -> Ok(f.decoder)
      [] f.model = "FixedArray" -> Ok(f.decoder)
      [] f.model = "FixedTable" ->
             IF last = pos - 1 THEN Ok(f.base_decoder)
             ELSE IF f.serializer.kind = "none" THEN Panic("unwrap of serializer")
             ELSE Ok([descend |-> f.serializer.v, pos |-> pos])
      [] f.model = "VariableArray" ->
             IF last = pos THEN Ok(f.child_decoder) ELSE Ok(f.base_decoder)
      [] f.model = "VariableTable" ->
             IF last >= pos + 1
             THEN IF f.serializer.kind = "none" THEN Panic("unwrap of serializer")
                  ELSE Ok([descend |-> f.serializer.v, pos |-> pos + 1])
             ELSE Ok(f.base_decoder)

InitSchema ==
    /\ fields = <<>>
    /\ cur = None
    /\ call = [name |-> "input", arg |-> <<>>, cache |-> <<>>]
    /\ result = None
    /\ root = 1
    /\ fp_cache = <<>>
    /\ entity = None
    /\ entities_vec = Entities_default
    /\ last_header = NoHeader
    /\ created = <<>>

\* Field::new(ser, f)
NewField ==
    \E d \in LoadInputs :
        /\ cur = None
        /\ result.kind # "Panic"
        /\ Len(fields) < MaxFields
        /\ cur' = Some(Field_new(d))
        /\ call' = Call("Field::new", d)
        /\ result' = None
        /\ UNCHANGED <<fields, root, fp_cache, entity, tableVars>>

\* the loader fills in field_type and serializer of the new field
ResolveField ==
    /\ cur # None
    /\ call.name = "Field::new"
    /\ cur' = Some(Resolve(cur.v, call.arg))
    /\ call' = Call("resolve", call.arg)
    /\ UNCHANGED <<fields, result, root, fp_cache, entity, tableVars>>

\* field.set_model(model) with the model the loader assigns; the field joins
\* its serializer's fields, or the panic of set_model ends the load
SetModel ==
    /\ cur # None
    /\ call.name = "resolve"
    /\ \E r \in {set_model(cur.v, ModelFor(cur.v))} :
           /\ result' = IF r.kind = "Ok" THEN None ELSE r
           /\ fields' = IF r.kind = "Ok" THEN Append(fields, r.v) ELSE fields
    /\ cur' = None
    /\ call' = Call("set_model", ModelFor(cur.v))
    /\ UNCHANGED <<root, fp_cache, entity, tableVars>>

\* the decoder lookup reaches a loaded field
GetFieldDecoder ==
    \E i \in 1 .. Len(fields), last \in 0 .. 2 :
        /\ cur = None
        /\ result.kind # "Panic"
        /\ call' = Call("Field::get_decoder_for_field_path", <<i, last>>)
        /\ result' = Field_get_decoder_for_field_path(fields[i], last, 1)
        /\ UNCHANGED <<fields, cur, root, fp_cache, entity, tableVars>>

NextSchema == NewField \/ ResolveField \/ SetModel \/ GetFieldDecoder

SpecSchema == InitSchema /\ [][NextSchema]_vars

\* what a field's model requires of it
HasRequired(f) ==
    /\ f.model = "VariableArray" =>
           f.field_type.kind = "some" /\ f.field_type.v.generic.kind = "some"
    /\ f.model \in {"FixedTable", "VariableTable"} => f.serializer.kind = "some"

----------------------------------------------------------------------------
(* Traversal: Serializer::get_field_paths over an entity's state, as the   *)
(* Display of an Entity calls it, with Field::get_field_paths per field.   *)

\* FieldState::get: the child at the path, a value or a FieldState
RECURSIVE get_at(_, _, _)
get_at(state, fp, d) ==
    LET idx == fp.path[d]
    IN  IF idx >= Len(state) THEN None
        ELSE IF d = fp.last
             THEN (IF state[idx + 1].kind = "none" THEN None ELSE Some(state[idx + 1]))
             ELSE IF state[idx + 1].kind = "state"
                  THEN get_at(state[idx + 1].state, fp, d + 1)
                  ELSE None

get(state, fp) == get_at(state, fp, 0)

\* fp.down()
down(fp) == [fp EXCEPT !.last = fp.last + 1]

\* fp.set(i, v)
set(fp, i, v) == [fp EXCEPT !.path[i] = v]

\* the for loop over the slots of an array from slot i on: with only_some
\* a path for each slot that is Some, without it a path for each slot
RECURSIVE slot_paths(_, _, _, _)
slot_paths(fp, slots, i, only_some) ==
    IF i >= Len(slots) THEN <<>>
    ELSE (IF only_some /\ slots[i + 1].kind = "none" THEN <<>>
          ELSE <<set(fp, fp.last, i)>>)
         \o slot_paths(fp, slots, i + 1, only_some)

RECURSIVE Serializer_get_field_paths(_, _, _, _)
RECURSIVE row_paths(_, _, _, _)

\* the for loop over the rows of a VariableTable from row i on
row_paths(f, fp, rows, i) ==
    IF i >= Len(rows) THEN <<>>
    ELSE (IF rows[i + 1].kind = "state"
          THEN Serializer_get_field_paths(f.serializer.v, set(fp, fp.last - 1, i),
                                          rows[i + 1].state, 0)
          ELSE <<>>)
         \o row_paths(f, fp, rows, i + 1)

\* the arms of Field::get_field_paths that read st.get(fp), given what it
\* returned
paths_below(f, fp, x) ==
    IF x.kind = "none" \/ x.v.kind # "state" THEN <<>>
    ELSE CASE f.model = "FixedArray" -> slot_paths(down(fp), x.v.state, 0, TRUE)
           [] f.model = "FixedTable" ->
                  Serializer_get_field_paths(f.serializer.v, down(fp), x.v.state, 0)
           [] f.model = "VariableArray" -> slot_paths(down(fp), x.v.state, 0, FALSE)
           [] f.model = "VariableTable" -> row_paths(f, down(down(fp)), x.v.state, 0)

\* Field::get_field_paths
Field_get_field_paths(f, fp, st) ==
    IF f.model = "Simple" THEN <<fp>> ELSE paths_below(f, fp, get(st, fp))

\* Serializer::get_field_paths: the flat_map over the fields from field i on
Serializer_get_field_paths(ser, fp, st, i) ==
    IF i >= Len(SerFields(ser)) THEN <<>>
    ELSE Field_get_field_paths(SerFields(ser)[i + 1], set(fp, fp.last, i), st)
         \o Serializer_get_field_paths(ser, fp, st, i + 1)

\* the writes an entity of the class may have received
ClassWrites(class) ==
    IF class = 1
    THEN << <<(<<0>>), 600>>, <<(<<1, 0>>), 1>>, <<(<<1, 1>>), 2>>,
            <<(<<2, 0>>), 3>>, <<(<<3, 0>>), 10>>, <<(<<3, 2>>), 30>>,
            <<(<<4, 0, 0>>), 7>>, <<(<<4, 1, 0>>), 8>> >>
    ELSE << <<(<<0>>), 7>>, <<(<<1, 0>>), 5>>, <<(<<2, 0>>), 1>>, <<(<<2, 1>>), 2>> >>

\* the state after those of the writes whose position is in chosen
RECURSIVE WithChosen(_, _, _, _)
WithChosen(state, writes, chosen, k) ==
    IF k > Len(writes) THEN state
    ELSE WithChosen(IF k \in chosen
                    THEN set_value(state, PathOf(writes[k][1]), writes[k][2])
                    ELSE state,
                    writes, chosen, k + 1)

InitTraversal ==
    /\ \E c \in ClassIds :
           /\ root = Class(c).serializer
           /\ \E chosen \in SUBSET (1 .. Len(ClassWrites(c))) :
                  entity = Entity_new(5, 1, c, WithChosen(<<>>, ClassWrites(c), chosen, 1))
    /\ entities_vec = (5 :> entity)
    /\ created = (5 :> [serial |-> 1, class |-> entity.class])
    /\ last_header = Header(2, 5)
    /\ fp_cache = <<>>
    /\ call = [name |-> "input", arg |-> <<>>, cache |-> <<>>]
    /\ result = None
    /\ fields = <<>>
    /\ cur = None

\* self.class.serializer.get_field_paths(&mut FieldPath::new(), &self.state)
GetFieldPaths ==
    /\ call.name = "input"
    /\ call' = Call("get_field_paths", <<>>)
    /\ result' = Ok(Serializer_get_field_paths(root, FieldPath_new, entity.state, 0))
    /\ UNCHANGED <<root, fp_cache, entity, tableVars, schemaVars>>

NextTraversal == GetFieldPaths

SpecTraversal == InitTraversal /\ [][NextTraversal]_vars

\* the paths at which a state holds a value, below `prefix`, from child k
\* on, in lexicographic order of their indices
RECURSIVE Populated(_, _, _)
Populated(state, prefix, k) ==
    IF k > Len(state) THEN <<>>
    ELSE (CASE state[k].kind = "value" -> <<Append(prefix, k - 1)>>
            [] state[k].kind = "state" ->
                   Populated(state[k].state, Append(prefix, k - 1), 1)
            [] state[k].kind = "none" -> <<>>)
         \o Populated(state, prefix, k + 1)

\* C11: get_field_paths yields exactly the paths at which the state holds a
\* value, each once, in ascending lexicographic order; an absent child (an
\* unset Simple field, an unset array slot, an unset table row) yields none.
C11_PopulatedPaths ==
    call.name = "get_field_paths" =>
        [k \in 1 .. Len(result.v) |-> Used(result.v[k])] = Populated(entity.state, <<>>, 1)

----------------------------------------------------------------------------
(* The name cache over a sequence of get_field_path_for_name calls on one  *)
(* serializer.                                                             *)

\* the names asked, in any order and any number of times: names that
\* resolve on some serializer of the schema, and names that fail
CacheNames ==
    { Str1("h"), Str1("s"), Str1("x"), Str1("q"),
      N2(Str1("b"), Str1("x")), N2(Str1("b"), Str1("h")),
      N2(Str2("v", "a"), fmt04(1)),
      N3(Str2("v", "t"), fmt04(1), Str1("s")),
      N3(Str2("v", "t"), fmt04(0), Str1("s")),
      N2(Str1("h"), Str1("x")) }

InitCache ==
    /\ root \in SerIds
    /\ fp_cache = <<>>
    /\ call = [name |-> "input", arg |-> <<>>, cache |-> <<>>]
    /\ result = None
    /\ entity = None
    /\ entities_vec = Entities_default
    /\ last_header = NoHeader
    /\ created = <<>>
    /\ fields = <<>>
    /\ cur = None

\* serializer.get_field_path_for_name(n); a panic aborts the program
LookupName ==
    \E n \in CacheNames :
        /\ result.kind # "Panic"
        /\ \E r \in {get_field_path_for_name(root, fp_cache, n)} :
               /\ result' = r.ret
               /\ fp_cache' = r.cache
        /\ call' = Call("get_field_path_for_name", n)
        /\ UNCHANGED <<root, entity, tableVars, schemaVars>>

NextCache == LookupName

SpecCache == InitCache /\ [][NextCache]_vars

\* C12: whatever lookups came before, the result for a name is the result on
\* a serializer with an empty cache; a successful lookup of an uncached name
\* adds exactly name -> path, a lookup of a cached name and a failed lookup
\* leave the cache as it was.
C12_CacheTransparent ==
    call.name = "get_field_path_for_name" =>
        /\ result = get_field_path_for_name(root, <<>>, call.arg).ret
        /\ fp_cache = IF call.arg \notin DOMAIN call.cache /\ result.kind = "Ok"
                      THEN (call.arg :> result.v) @@ call.cache
                      ELSE call.cache
        /\ call.arg \notin DOMAIN call.cache /\ result.kind = "Ok" =>
               DOMAIN fp_cache = DOMAIN call.cache \cup {call.arg}

\* a name already cached, among two others, was looked up again
C12_Witness ==
    /\ call.name = "get_field_path_for_name"
    /\ call.arg \in DOMAIN call.cache
    /\ Cardinality(DOMAIN call.cache) >= 3
    /\ result = Ok(call.cache[call.arg])
    /\ fp_cache = call.cache

----------------------------------------------------------------------------
(* Entities::iter and the lookups by class                                 *)

\* the lowest slot of a non-empty set of slots
Lowest(slots) == CHOOSE m \in slots : \A j \in slots : m <= j

\* self.entities_vec.iter().flatten() from slot i on: the entities of the
\* occupied slots, in slot order
RECURSIVE iter_from(_, _)
iter_from(vec, i) ==
    IF {j \in DOMAIN vec : j >= i /\ j < NumSlots} = {} THEN <<>>
    ELSE <<vec[Lowest({j \in DOMAIN vec : j >= i /\ j < NumSlots})]>>
         \o iter_from(vec, Lowest({j \in DOMAIN vec : j >= i /\ j < NumSlots}) + 1)

\* Entities::iter
iter(vec) == iter_from(vec, 0)

\* Iterator::find on class().id(), from the k-th item on
RECURSIVE find_id(_, _, _)
find_id(items, id, k) ==
    IF k > Len(items) THEN None
    ELSE IF Class(items[k].class).id = id THEN Some(items[k])
    ELSE find_id(items, id, k + 1)

\* Iterator::find on class().name(), from the k-th item on
RECURSIVE find_name(_, _, _)
find_name(items, name, k) ==
    IF k > Len(items) THEN None
    ELSE IF Class(items[k].class).name = name THEN Some(items[k])
    ELSE find_name(items, name, k + 1)

\* .ok_or(err)
ok_or(x, err) == IF x.kind = "some" THEN Ok(x.v) ELSE Err(err)

\* the lookup by class id that takes the last match
get_by_class_id_last(vec, id) ==
    LET holders == {j \in DOMAIN vec : Class(vec[j].class).id = id}
    IN  IF holders = {} THEN Err(<<"ClassIdNotFound", id>>)
        ELSE Ok(vec[CHOOSE m \in holders : \A j \in holders : j <= m])

\* Entities::get_by_class_id
get_by_class_id(vec, id) == ok_or(find_id(iter(vec), id, 1), <<"ClassIdNotFound", id>>)

\* Entities::get_by_class_name
get_by_class_name(vec, name) ==
    ok_or(find_name(iter(vec), name, 1), <<"ClassNameNotFound", name>>)

\* class ids and names asked for: those of the schema and one of no class
ClassIdInputs == ClassIds \cup {3}
ClassNameInputs == {Class(c).name : c \in ClassIds} \cup {"C_None"}

\* the slots holding an entity of the class with this id / this name
SlotsOfId(vec, c) == {j \in Occupied(vec) : Class(vec[j].class).id = c}
SlotsOfName(vec, n) == {j \in Occupied(vec) : Class(vec[j].class).name = n}

\* C13: get_by_class_id(c) (get_by_class_name(s)) returns the entity of the
\* lowest slot holding an entity of that class when there is one, and
\* ClassIdNotFound(c) (ClassNameNotFound(s)) otherwise; iter yields exactly
\* the occupied slots, each once, in ascending slot order.
C13_ClassLookup ==
    /\ \A c \in ClassIdInputs :
           get_by_class_id(entities_vec, c) =
               IF SlotsOfId(entities_vec, c) = {}
               THEN Err(<<"ClassIdNotFound", c>>)
               ELSE Ok(entities_vec[Lowest(SlotsOfId(entities_vec, c))])
    /\ \A n \in ClassNameInputs :
           get_by_class_name(entities_vec, n) =
               IF SlotsOfName(entities_vec, n) = {}
               THEN Err(<<"ClassNameNotFound", n>>)
               ELSE Ok(entities_vec[Lowest(SlotsOfName(entities_vec, n))])
    /\ Len(iter(entities_vec)) = Cardinality(Occupied(entities_vec))
    /\ \A k \in 1 .. Len(iter(entities_vec)) :
           /\ index(iter(entities_vec)[k]) \in Occupied(entities_vec)
           /\ iter(entities_vec)[k] = entities_vec[index(iter(entities_vec)[k])]
           /\ k > 1 => index(iter(entities_vec)[k - 1]) < index(iter(entities_vec)[k])

\* two slots hold entities of the same class, the lookup returns the one in
\* the lower slot, and the other class has no entity
C13_Witness ==
    /\ Occupied(entities_vec) = {5, NumSlots - 1}
    /\ entities_vec[5].class = 2
    /\ entities_vec[NumSlots - 1].class = 2
    /\ entities_vec[5] # entities_vec[NumSlots - 1]
    /\ get_by_class_id(entities_vec, 2) = Ok(entities_vec[5])
    /\ get_by_class_name(entities_vec, Class(1).name) = Err(<<"ClassNameNotFound", Class(1).name>>)
    /\ Len(iter(entities_vec)) = 2

----------------------------------------------------------------------------
(* Serializer::get_type_for_field_path, next to the decoder lookup, on the *)
(* valid paths of the schema.  `i - 1` on the usize i = 0 panics in a      *)
(* build with overflow checks and wraps to usize::MAX in one without.      *)

Builds == {"overflow-checks", "wrapping"}

RECURSIVE type_loop(_, _, _, _)
RECURSIVE type_descend(_, _, _, _)

\* one turn of the loop of get_type_for_field_path at index i
type_loop(fp, current_field, i, build) ==
    CASE current_field.model \in {"Simple", "FixedArray"} -> Ok(current_field.field_type.v)
      [] current_field.model = "FixedTable" ->
             IF i = 0
             THEN (IF build = "overflow-checks"
                   THEN Panic("attempt to subtract with overflow")
                   ELSE type_descend(fp, current_field, i + 1, build))
             ELSE IF fp.last = i - 1 THEN Ok(current_field.field_type.v)
             ELSE type_descend(fp, current_field, i + 1, build)
      [] current_field.model = "VariableArray" ->
             IF fp.last = i
             THEN (IF current_field.field_type.v.generic.kind = "none"
                   THEN Panic("unwrap of generic")
                   ELSE Ok(current_field.field_type.v.generic.v))
             ELSE Ok(current_field.field_type.v)
      [] current_field.model = "VariableTable" ->
             IF i >= fp.last THEN Ok(current_field.field_type.v)
             ELSE type_descend(fp, current_field, i + 2, build)

\* the step to the field fp.path[i] of the child serializer
type_descend(fp, current_field, i, build) ==
    IF current_field.serializer.kind = "none" THEN Panic("unwrap of serializer")
    ELSE IF i >= PathSlots THEN Panic("path index out of range")
    ELSE IF fp.path[i] >= Len(SerFields(current_field.serializer.v))
    THEN Panic("field index out of range")
    ELSE type_loop(fp, SerFields(current_field.serializer.v)[fp.path[i] + 1], i, build)

get_type_for_field_path(ser, fp, build) ==
    IF fp.path[0] >= Len(SerFields(ser)) THEN Panic("field index out of range")
    ELSE type_loop(fp, SerFields(ser)[fp.path[0] + 1], 0, build)

GetTypeForFieldPath ==
    \E build \in Builds :
        /\ call' = Call("get_type_for_field_path", call.arg)
        /\ result' = get_type_for_field_path(root, call.arg, build)
        /\ UNCHANGED <<root, fp_cache, entity, tableVars, schemaVars>>

NextTypes == GetTypeForFieldPath \/ GetDecoderForFieldPath

SpecTypes == InitPaths /\ [][NextTypes]_vars

\* the type the field model gives the path fp, read from depth d of ser: the
\* field's own type where the decoder lookup gives decoder or base_decoder,
\* the element type where it gives child_decoder
RECURSIVE TypeByModel(_, _, _)
TypeByModel(ser, fp, d) ==
    LET f == SerFields(ser)[fp.path[d] + 1]
    IN  CASE f.model \in {"Simple", "FixedArray"} -> f.field_type.v
          [] f.model = "FixedTable" ->
                 IF fp.last = d THEN f.field_type.v
                 ELSE TypeByModel(f.serializer.v, fp, d + 1)
          [] f.model = "VariableArray" ->
                 IF fp.last = d THEN f.field_type.v ELSE f.field_type.v.generic.v
          [] f.model = "VariableTable" ->
                 IF fp.last <= d + 1 THEN f.field_type.v
                 ELSE TypeByModel(f.serializer.v, fp, d + 2)

\* C14: for every valid field path, get_type_for_field_path completes with
\* no index underflow and returns the field's own type where the path ends
\* at a Simple, FixedArray, FixedTable or VariableTable field (or a row
\* index) or at a VariableArray field itself, and the element type at a
\* VariableArray element: the cases of the decoder lookup.
C14_TypeLookup ==
    call.name = "get_type_for_field_path" =>
        result = Ok(TypeByModel(root, call.arg, 0))

----------------------------------------------------------------------------
(* FieldModels::as_string on the models that set_model stored              *)

\* FieldModels::as_string
as_string(model) ==
    CASE model = "Simple" -> "fixed-array"
      [] model = "FixedArray" -> "fixed-table"
      [] model = "FixedTable" -> "variable-array"
      [] model = "VariableArray" -> "variable-table"
      [] model = "VariableTable" -> "simple"

\* field.model.as_string() of a loaded field
AsString ==
    \E i \in 1 .. Len(fields) :
        /\ cur = None
        /\ result.kind # "Panic"
        /\ call' = Call("as_string", i)
        /\ result' = Ok(as_string(fields[i].model))
        /\ UNCHANGED <<fields, cur, root, fp_cache, entity, tableVars>>

NextModelNames == NewField \/ ResolveField \/ SetModel \/ AsString

SpecModelNames == InitSchema /\ [][NextModelNames]_vars

\* the name of a model
ModelName(model) ==
    CASE model = "Simple" -> "simple"
      [] model = "FixedArray" -> "fixed-array"
      [] model = "FixedTable" -> "fixed-table"
      [] model = "VariableArray" -> "variable-array"
      [] model = "VariableTable" -> "variable-table"

\* C15: as_string returns the name of the model it is called on, the model
\* that set_model stored in the field, and no two models share a name.
C15_ModelName ==
    /\ call.name = "as_string" => result = Ok(ModelName(fields[call.arg].model))
    /\ \A m1, m2 \in FieldModels : as_string(m1) = as_string(m2) => m1 = m2

====
